---- MODULE Spec2Model ----
(***************************************************************************)
(* Model of the tear-film analyzer's image analyses (src/app.py,           *)
(* src/utils/image_processing.py).                                         *)
(*                                                                         *)
(* Percentages are exact rationals [num, den] (value num/den, in percent): *)
(* the code computes (pixels / total) * 100 in double precision, and the   *)
(* products that land on a grade cutoff (0.005, 0.03, 0.08, 0.15 times 100)*)
(* are exact in that arithmetic.                                           *)
(***************************************************************************)
EXTENDS Integers, Sequences, FiniteSets, TLC

VARIABLES
    p1, p2,        \* two percentages handed to the grade ladders
    graded,        \* the grades the three ladders gave to p1 and p2
    image,         \* the caller's image buffer
    pc,            \* position: "idle" before the call, "st_error" and
                   \* "call_fallback" in the handler of the primary analysis,
                   \* "done" after the call returned, "rendered" after main
                   \* displayed the result
    result,        \* the value the analysis call returned
    locals,        \* the masks of the call's frame when it returned
    log,           \* messages emitted through st.error, in order
    tear_results,  \* results of successive analyze_tear_film_pattern calls
    refine,        \* a candidate mask and what the refinement steps made of it
    calls,         \* the staining functions entered by the invocation, in order
    exc,           \* the exception each staining function raised, if any
    ui,            \* what main rendered of the staining result
    inv,           \* two invocations under way at once, each with its frame
    rng,           \* the generator of the random module, shared by all calls
    clinic         \* a call of a function of the clinical findings: its
                   \* arguments and the value it returned

vars == <<p1, p2, graded, image, pc, result, locals, log, tear_results, refine,
          calls, exc, ui, inv, rng, clinic>>

(***************************************************************************)
(* Bounds of the model.                                                    *)
(***************************************************************************)
PctDen == 2        \* percentages are the multiples of 1/PctDen in [0, 100]

(***************************************************************************)
(* Rational percentages.                                                   *)
(***************************************************************************)
Pct(n, d) == [num |-> n, den |-> d]
PctGT(p, k) == p.num > k * p.den                 \* p > k
PctLess(p, q) == p.num * q.den < q.num * p.den   \* p < q

\* staining_percentage > 0.5, the last rung of the Oxford ladder
PctGTHalf(p) == 2 * p.num > p.den

(***************************************************************************)
(* Grade ladders.                                                          *)
(***************************************************************************)
\* a ladder whose comparisons include the cutoff (>= for >)
StainingGradeInclusive(p) ==
    IF p.num >= 15 * p.den THEN "Severe (Grade IV-V)"
    ELSE IF p.num >= 8 * p.den THEN "Moderate (Grade III)"
    ELSE IF p.num >= 3 * p.den THEN "Mild (Grade II)"
    ELSE IF 2 * p.num >= p.den THEN "Trace (Grade I)"
    ELSE "None (Grade 0)"

\* a ladder that tests the Moderate cutoff before the Severe one
StainingGradeMisordered(p) ==
    IF PctGT(p, 8) THEN "Moderate (Grade III)"
    ELSE IF PctGT(p, 15) THEN "Severe (Grade IV-V)"
    ELSE IF PctGT(p, 3) THEN "Mild (Grade II)"
    ELSE IF PctGTHalf(p) THEN "Trace (Grade I)"
    ELSE "None (Grade 0)"

\* app.py 279-294: the Oxford-scale ladder of analyze_fluorescein_staining
StainingGrade(p) ==
    IF PctGT(p, 15) THEN "Severe (Grade IV-V)"
    ELSE IF PctGT(p, 8) THEN "Moderate (Grade III)"
    ELSE IF PctGT(p, 3) THEN "Mild (Grade II)"
    ELSE IF PctGTHalf(p) THEN "Trace (Grade I)"
    ELSE "None (Grade 0)"

\* app.py 279-294: the interpretation assigned together with the grade
StainingInterpretation(p) ==
    IF PctGT(p, 15) THEN "Significant corneal epithelial damage - multiple coalescing areas"
    ELSE IF PctGT(p, 8) THEN "Moderate epithelial disruption - multiple discrete areas"
    ELSE IF PctGT(p, 3) THEN "Mild epithelial changes - few discrete spots"
    ELSE IF PctGTHalf(p) THEN "Minimal epithelial staining - sparse spots"
    ELSE "No significant epithelial staining detected"

\* a ladder whose two upper labels are exchanged
FallbackGradeSwapped(p) ==
    IF PctGT(p, 10) THEN "Mild"
    ELSE IF PctGT(p, 5) THEN "Moderate to Severe"
    ELSE "Trace to None"

\* app.py 343-349: the ladder of simple_fluorescein_analysis_improved
FallbackGrade(p) ==
    IF PctGT(p, 10) THEN "Moderate to Severe"
    ELSE IF PctGT(p, 5) THEN "Mild"
    ELSE "Trace to None"

\* image_processing.py 125-135: the ladder of detect_corneal_staining
DamageGrade(p) ==
    IF PctGT(p, 30) THEN "Severe (IV-V)"
    ELSE IF PctGT(p, 15) THEN "Moderate (III)"
    ELSE IF PctGT(p, 5) THEN "Mild (II)"
    ELSE IF PctGT(p, 1) THEN "Trace (I)"
    ELSE "None (0)"

\* image_processing.py 149-158
GetStainingInterpretation(grade) ==
    IF grade = "Severe (IV-V)"
    THEN "Significant corneal epithelial damage - requires immediate attention"
    ELSE IF grade = "Moderate (III)"
    THEN "Moderate epithelial disruption - consider anti-inflammatory treatment"
    ELSE IF grade = "Mild (II)"
    THEN "Mild epithelial changes - monitor and consider lubrication"
    ELSE "Minimal or no epithelial damage - normal finding"

(***************************************************************************)
(* Images.  An image is [h, w, mode, px]: px maps the pixel index          *)
(* row * w + col to its <<R, G, B>> triple of 8-bit values.  mode "RGB"    *)
(* is a 3-channel array, mode "L" a 2-D array without a channel axis.      *)
(***************************************************************************)
Dark == <<10, 10, 10>>        \* pupil-like pixel
Bg == <<60, 70, 50>>          \* dull background
Stain == <<60, 220, 20>>      \* bright green pixel (channel sum above 255)
White == <<250, 250, 250>>    \* sclera-like pixel
Amber == <<230, 150, 40>>     \* red-dominant pixel
Palette == {Dark, Bg, Stain, White, Amber}
Gray == <<128, 128, 128>>

Pixels(h, w) == 0..(h * w - 1)
RowOf(i, w) == i \div w
ColOf(i, w) == i % w

(***************************************************************************)
(* scipy.ndimage with its defaults: the structuring element is the cross   *)
(* (connectivity 1), one iteration, border_value 0.                        *)
(***************************************************************************)
\* the 8 neighbour offsets (connectivity 2)
FullNeighbourOffsets ==
    {<<-1, -1>>, <<-1, 0>>, <<-1, 1>>, <<0, -1>>, <<0, 1>>, <<1, -1>>, <<1, 0>>, <<1, 1>>}

\* generate_binary_structure(2, 1) without its centre
CrossOffsets == {<<-1, 0>>, <<1, 0>>, <<0, -1>>, <<0, 1>>}

InBounds(i, d, h, w) ==
    /\ RowOf(i, w) + d[1] >= 0 /\ RowOf(i, w) + d[1] < h
    /\ ColOf(i, w) + d[2] >= 0 /\ ColOf(i, w) + d[2] < w

Shift(i, d, w) == i + d[1] * w + d[2]

Neighbours(i, h, w, offsets) ==
    {Shift(i, d, w) : d \in {e \in offsets : InBounds(i, e, h, w)}}

\* ndimage.binary_dilation(mask)
BinaryDilation(mask, h, w) ==
    {i \in Pixels(h, w) : i \in mask \/ Neighbours(i, h, w, CrossOffsets) \cap mask # {}}

\* ndimage.binary_erosion(mask): a pixel whose cross leaves the image is eroded
BinaryErosion(mask, h, w) ==
    {i \in mask : /\ \A d \in CrossOffsets : InBounds(i, d, h, w)
                  /\ Neighbours(i, h, w, CrossOffsets) \subseteq mask}

\* a closing that forgets its erosion
BinaryClosingDilateOnly(mask, h, w) == BinaryDilation(mask, h, w)

\* ndimage.binary_closing(mask): dilation, then erosion
BinaryClosing(mask, h, w) == BinaryErosion(BinaryDilation(mask, h, w), h, w)

\* ndimage.binary_opening(mask): erosion, then dilation
BinaryOpening(mask, h, w) == BinaryDilation(BinaryErosion(mask, h, w), h, w)

\* the pixels of mask reachable from frontier through the offsets
RECURSIVE Flood(_, _, _, _, _, _)
Flood(comp, frontier, mask, h, w, offsets) ==
    IF frontier = {} THEN comp
    ELSE LET next == (UNION {Neighbours(i, h, w, offsets) : i \in frontier} \cap mask) \ comp
         IN Flood(comp \cup next, next, mask, h, w, offsets)

\* the connected components of mask under the given neighbourhood
RECURSIVE Components(_, _, _, _)
Components(mask, h, w, offsets) ==
    IF mask = {} THEN {}
    ELSE LET seed == CHOOSE i \in mask : \A j \in mask : i <= j
             comp == Flood({seed}, {seed}, mask, h, w, offsets)
         IN {comp} \cup Components(mask \ comp, h, w, offsets)

\* ndimage.label(mask): the default structure is the cross
Label(mask, h, w) == Components(mask, h, w, CrossOffsets)

(***************************************************************************)
(* np.percentile with linear interpolation, scaled by 100: the result is   *)
(* 100 * percentile, so that comparisons stay in the integers.  The        *)
(* interpolation is exact here; numpy's is in double precision, which      *)
(* agrees whenever q * (n - 1) / 100 is not a whole number or the two      *)
(* neighbouring order statistics are equal.                                *)
(***************************************************************************)
\* the k-th smallest (from 0) value of s over the index set D
KthSmallest(s, D, k) ==
    CHOOSE v \in {s[i] : i \in D} :
        /\ Cardinality({i \in D : s[i] < v}) <= k
        /\ k < Cardinality({i \in D : s[i] <= v})

Percentile100(s, D, q) ==
    LET n == Cardinality(D)
        pos == q * (n - 1)
        lo == pos \div 100
        fr == pos % 100
        hi == IF lo + 1 < n THEN lo + 1 ELSE lo
        a == KthSmallest(s, D, lo)
        b == KthSmallest(s, D, hi)
    IN 100 * a + fr * (b - a)

(***************************************************************************)
(* Buffers.  A heap maps buffer names to pixel arrays; the caller's image  *)
(* is the buffer "input".                                                  *)
(***************************************************************************)
Bind(heap, ref, data) ==
    [b \in DOMAIN heap \cup {ref} |-> IF b = ref THEN data ELSE heap[b]]

\* np.array(image): a new array holding the image's pixels
NpArray(ref) == "img_array"

\* a copy that returns its argument (no new buffer)
NdarrayCopyAlias(ref) == ref

\* ndarray.copy(): a new buffer
NdarrayCopy(ref) == "result_array"

(***************************************************************************)
(* analyze_fluorescein_staining, app.py 201-308.                           *)
(***************************************************************************)
\* 3 * intensity: intensity = (r.astype(float) + g.astype(float) + b.astype(float)) / 3
Intensity3(px) == [i \in DOMAIN px |-> px[i][1] + px[i][2] + px[i][3]]

\* green_dominance > 1.2 with green_dominance = g / (r + b + 1)
GreenDominant(rgb) == 5 * rgb[2] > 6 * (rgb[1] + rgb[3] + 1)

\* pupil_mask = intensity < np.percentile(intensity, 10)
PupilMask(s, D) ==
    LET pupil_threshold == Percentile100(s, D, 10)
    IN {i \in D : 100 * s[i] < pupil_threshold}

\* sclera_mask = intensity > np.percentile(intensity, 85)
ScleraMask(s, D) ==
    LET sclera_threshold == Percentile100(s, D, 85)
    IN {i \in D : 100 * s[i] > sclera_threshold}

\* candidates taken at or above the 60th percentile
StainingCandidatesInclusive(px, s, D, pupil, sclera) ==
    LET threshold == Percentile100(s, D, 60)
    IN {i \in D : /\ 100 * s[i] >= threshold
                  /\ GreenDominant(px[i])
                  /\ i \notin pupil
                  /\ i \notin sclera}

\* staining_candidates, app.py 226-229
StainingCandidates(px, s, D, pupil, sclera) ==
    LET threshold == Percentile100(s, D, 60)
    IN {i \in D : /\ 100 * s[i] > threshold
                  /\ GreenDominant(px[i])
                  /\ i \notin pupil
                  /\ i \notin sclera}

\* a floor of 100 pixels, the min_area of detect_corneal_staining
BelowMinSizeHundred(size, total) == size < 100 \/ 1000 * size < total

\* min_size = max(10, staining_mask.size * 0.001), as size < min_size
BelowMinSize(size, total) == 1000 * size < 10000 \/ 1000 * size < total

\* closing, opening, then removal of the components below min_size
RefineMask(candidates, h, w) ==
    LET opened == BinaryOpening(BinaryClosing(candidates, h, w), h, w)
        small == {c \in Label(opened, h, w) : BelowMinSize(Cardinality(c), h * w)}
    IN opened \ UNION small

\* staining_pixels = np.sum(staining_mask)
StainingPixels(staining_mask) == Cardinality(staining_mask)

\* the percentage, 0 when the corneal area is empty
StainingPercentage(staining_mask, corneal_area_mask) ==
    IF Cardinality(corneal_area_mask) > 0
    THEN Pct(100 * StainingPixels(staining_mask),
             Cardinality(corneal_area_mask))
    ELSE Pct(0, 1)

\* np.clip(x * 0.4 + highlight_color[i] * 0.6, 0, 255).astype(np.uint8)
Highlight(rgb) ==
    <<(4 * rgb[1] + 6 * 255) \div 10, (4 * rgb[2] + 6 * 100) \div 10,
      (4 * rgb[3] + 6 * 100) \div 10>>

\* np.clip(x * 0.7 + excluded_color[i] * 0.3, 0, 255).astype(np.uint8)
GrayOut(rgb) ==
    <<(7 * rgb[1] + 3 * 100) \div 10, (7 * rgb[2] + 3 * 100) \div 10,
      (7 * rgb[3] + 3 * 100) \div 10>>

\* the excluded areas marked in the result: the whole image but the mask
ExcludedAreasAllUnstained(pupil, sclera, valid, D) == D \ valid

\* the excluded areas marked in the result: pupil_mask | sclera_mask
ExcludedAreas(pupil, sclera, valid, D) == pupil \cup sclera

\* the result image: staining highlighted, excluded areas grayed
RenderStaining(arr, valid, excluded) ==
    LET highlighted == [i \in DOMAIN arr |-> IF i \in valid THEN Highlight(arr[i]) ELSE arr[i]]
    IN [i \in DOMAIN arr |-> IF i \in excluded THEN GrayOut(highlighted[i]) ELSE highlighted[i]]

\* the frame of the primary analysis on a 3-channel array
PrimaryFrame(img) ==
    LET D == Pixels(img.h, img.w)
        s == Intensity3(img.px)
        pupil == PupilMask(s, D)
        sclera == ScleraMask(s, D)
        mask == RefineMask(StainingCandidates(img.px, s, D, pupil, sclera), img.h, img.w)
        corneal == D \ (pupil \cup sclera)
    IN [kind |-> "primary", intensity3 |-> s,
        staining_mask |-> mask, corneal_area_mask |-> corneal,
        valid_staining |-> mask \cap corneal,
        excluded |-> ExcludedAreas(pupil, sclera, mask \cap corneal, D)]

\* labeled_staining, num_lesions = ndimage.label(valid_staining)
NumLesions(valid_staining, h, w) == Cardinality(Label(valid_staining, h, w))

PrimaryResult(img, frame, processed) ==
    LET pct == StainingPercentage(frame.staining_mask, frame.corneal_area_mask)
        num_lesions == NumLesions(frame.valid_staining, img.h, img.w)
    IN [kind |-> "metrics", processed_image |-> processed,
        staining_grade |-> StainingGrade(pct), staining_percentage |-> pct,
        lesion_count |-> num_lesions, interpretation |-> StainingInterpretation(pct),
        staining_areas |-> num_lesions]

(***************************************************************************)
(* simple_fluorescein_analysis_improved, app.py 310-361.                   *)
(***************************************************************************)
\* 3 * brightness: brightness = (r + g + b) / 3 on uint8 arrays
Brightness3(px) == [i \in DOMAIN px |-> (px[i][1] + px[i][2] + px[i][3]) % 256]

\* corneal_area = (brightness > pupil_threshold) & (brightness < sclera_threshold)
FallbackCornealArea(s, D) ==
    LET pupil_threshold == Percentile100(s, D, 15)
        sclera_threshold == Percentile100(s, D, 80)
    IN {i \in D : 100 * s[i] > pupil_threshold /\ 100 * s[i] < sclera_threshold}

\* staining_mask = (brightness > np.percentile(brightness, 70)) & corneal_area
FallbackStainingMask(s, D, corneal) ==
    LET threshold == Percentile100(s, D, 70)
    IN {i \in corneal : 100 * s[i] > threshold}

\* result_array[excluded_mask] // 2
Darken(rgb) == <<rgb[1] \div 2, rgb[2] \div 2, rgb[3] \div 2>>

RenderFallback(arr, mask, excluded) ==
    LET highlighted == [i \in DOMAIN arr |-> IF i \in mask THEN <<255, 100, 100>> ELSE arr[i]]
    IN [i \in DOMAIN arr |-> IF i \in excluded THEN Darken(highlighted[i]) ELSE highlighted[i]]

FallbackFrame(img) ==
    LET D == Pixels(img.h, img.w)
        s == Brightness3(img.px)
        corneal == FallbackCornealArea(s, D)
        mask == FallbackStainingMask(s, D, corneal)
    IN [kind |-> "fallback", intensity3 |-> s,
        staining_mask |-> mask, corneal_area_mask |-> corneal,
        valid_staining |-> mask, excluded |-> D \ corneal]

FallbackResult(img, frame, processed) ==
    LET pct == StainingPercentage(frame.staining_mask, frame.corneal_area_mask)
    IN [kind |-> "metrics", processed_image |-> processed,
        staining_grade |-> FallbackGrade(pct), staining_percentage |-> pct,
        lesion_count |-> pct.num \div (2 * pct.den),
        interpretation |-> "Basic staining analysis (pupil and sclera excluded)",
        staining_areas |-> pct.num \div (3 * pct.den)]

(***************************************************************************)
(* Defaults of the variables a specification does not use.                 *)
(***************************************************************************)
NoPct == Pct(0, 1)
NoGrades == [kind |-> "none"]
NoImage == [h |-> 0, w |-> 0, mode |-> "none", px |-> <<>>]
NoResult == [kind |-> "not_called"]
NoLocals == [kind |-> "none"]
NoFault == [type |-> "none", line |-> 0]
NoExc == [primary |-> NoFault, fallback |-> NoFault]
NoUi == [kind |-> "nothing"]
NoClinic == [fn |-> "none"]
NoInv == <<>>
NoRng == [stream |-> <<>>, pos |-> 0]
NoRefine ==
    [h |-> 0, w |-> 0, scenario |-> <<"none", <<0, 0, 0, 0>>>>, candidates |-> {}, mask |-> {},
     passes |-> 0, num_lesions |-> 0, fn |-> "none", ops |-> <<>>]

(***************************************************************************)
(* Specification of the grade ladders: two percentages are drawn, and one  *)
(* step hands both to each ladder.                                         *)
(***************************************************************************)
Percentages == {Pct(k, PctDen) : k \in 0..(100 * PctDen)}

InitGrade ==
    /\ p1 \in Percentages
    /\ p2 \in Percentages
    /\ graded = NoGrades
    /\ image = NoImage
    /\ pc = "idle"
    /\ result = NoResult
    /\ locals = NoLocals
    /\ log = <<>>
    /\ tear_results = <<>>
    /\ refine = NoRefine
    /\ calls = <<>>
    /\ exc = NoExc
    /\ ui = NoUi
    /\ inv = NoInv
    /\ rng = NoRng
    /\ clinic = NoClinic

ApplyGradeLadders ==
    /\ graded.kind = "none"
    /\ graded' = [kind |-> "graded",
                  staining1 |-> StainingGrade(p1), staining2 |-> StainingGrade(p2),
                  interpretation1 |-> StainingInterpretation(p1),
                  fallback1 |-> FallbackGrade(p1), fallback2 |-> FallbackGrade(p2),
                  damage1 |-> DamageGrade(p1), damage2 |-> DamageGrade(p2)]
    /\ UNCHANGED <<p1, p2, image, pc, result, locals, log, tear_results, refine, calls, exc, ui, inv, rng, clinic>>

NextGrade == ApplyGradeLadders

SpecGrade == InitGrade /\ [][NextGrade]_vars

(***************************************************************************)
(* C1-C3: the grade ladders.                                               *)
(***************************************************************************)
\* the ladder as the table of intervals states it
TableGrade(p) ==
    IF p.num > 15 * p.den THEN "Severe (Grade IV-V)"
    ELSE IF p.num > 8 * p.den /\ p.num <= 15 * p.den THEN "Moderate (Grade III)"
    ELSE IF p.num > 3 * p.den /\ p.num <= 8 * p.den THEN "Mild (Grade II)"
    ELSE IF 2 * p.num > p.den /\ p.num <= 3 * p.den THEN "Trace (Grade I)"
    ELSE "None (Grade 0)"

\* C1: for every percentage p in [0,100] the staining ladder assigns Severe
\* when p > 15, Moderate on (8,15], Mild on (3,8], Trace on (0.5,3] and None
\* on [0,0.5].
C1_LadderMatchesTable ==
    graded.kind = "graded" =>
        /\ graded.staining1 = TableGrade(p1)
        /\ graded.staining2 = TableGrade(p2)

\* a graded state whose two percentages sit on cutoffs (8 and 0.5)
C1_Witness ==
    /\ graded.kind = "graded"
    /\ p1.num = 8 * p1.den /\ graded.staining1 = "Mild (Grade II)"
    /\ 2 * p2.num = p2.den /\ graded.staining2 = "None (Grade 0)"

\* C2 as stated: a percentage of exactly 8.0 is graded Moderate.
C2_Original_TieIsHigherGrade ==
    (graded.kind = "graded" /\ p1.num = 8 * p1.den) =>
        graded.staining1 = "Moderate (Grade III)"

\* C2 amended: a percentage exactly on a cutoff resolves to the lower (less
\* severe) grade: 15.0 is Moderate, 8.0 is Mild, 3.0 is Trace, 0.5 is None.
C2_TieIsLowerGrade ==
    graded.kind = "graded" =>
        /\ p1.num = 15 * p1.den => graded.staining1 = "Moderate (Grade III)"
        /\ p1.num = 8 * p1.den => graded.staining1 = "Mild (Grade II)"
        /\ p1.num = 3 * p1.den => graded.staining1 = "Trace (Grade I)"
        /\ 2 * p1.num = p1.den => graded.staining1 = "None (Grade 0)"

\* a graded state whose first percentage is exactly 8.0
C2_Witness ==
    /\ graded.kind = "graded"
    /\ p1.num = 8 * p1.den
    /\ graded.staining1 = "Mild (Grade II)"

\* severity order of the labels of the three ladders
Severity(grade) ==
    CASE grade \in {"None (Grade 0)", "None (0)", "Trace to None"} -> 0
      [] grade \in {"Trace (Grade I)", "Trace (I)"} -> 1
      [] grade \in {"Mild (Grade II)", "Mild (II)", "Mild"} -> 2
      [] grade \in {"Moderate (Grade III)", "Moderate (III)", "Moderate to Severe"} -> 3
      [] grade \in {"Severe (Grade IV-V)", "Severe (IV-V)"} -> 4

\* C3: grading is monotonic: when p1 < p2, no ladder (staining, fallback,
\* damage) gives p1 a more severe grade than p2.
C3_MonotonicGrading ==
    (graded.kind = "graded" /\ PctLess(p1, p2)) =>
        /\ Severity(graded.staining1) <= Severity(graded.staining2)
        /\ Severity(graded.fallback1) <= Severity(graded.fallback2)
        /\ Severity(graded.damage1) <= Severity(graded.damage2)

\* p1 < p2 on the two sides of a cutoff of the staining and of the fallback
\* ladder, and graded by the damage ladder too (for instance 7.5 and 12)
C3_Witness ==
    /\ graded.kind = "graded"
    /\ PctLess(p1, p2)
    /\ graded.staining1 = "Mild (Grade II)" /\ graded.staining2 = "Moderate (Grade III)"
    /\ graded.fallback1 = "Mild" /\ graded.fallback2 = "Moderate to Severe"
    /\ graded.damage1 = "Mild (II)" /\ graded.damage2 = "Mild (II)"

(***************************************************************************)
(* detect_corneal_staining, image_processing.py 83-147.  The contours are  *)
(* OpenCV's output: the model draws them from rectangles near the image    *)
(* border, a contour being <<r0, c0, r1, c1>>.                             *)
(***************************************************************************)
min_area == 100

ContourChoices(h, w) ==
    {{}} \cup {{<<r0, c0, r1, c1>>} : r0 \in {0, 1}, c0 \in {0, 1},
                                      r1 \in {h - 2, h - 1} \cap 2..h,
                                      c1 \in {w - 2, w - 1} \cap 2..w}

\* cv2.contourArea of a rectangular contour
ContourArea(c) == (c[3] - c[1]) * (c[4] - c[2])

\* the pixels cv2.drawContours paints for a rectangular contour
ContourPixels(c, h, w) ==
    {i \in Pixels(h, w) :
        /\ RowOf(i, w) >= c[1] /\ RowOf(i, w) <= c[3]
        /\ ColOf(i, w) >= c[2] /\ ColOf(i, w) <= c[4]
        /\ \/ RowOf(i, w) \in {c[1], c[3]}
           \/ ColOf(i, w) \in {c[2], c[4]}}

RECURSIVE SumAreas(_)
SumAreas(cs) ==
    IF cs = {} THEN 0
    ELSE LET c == CHOOSE x \in cs : TRUE IN ContourArea(c) + SumAreas(cs \ {c})

DrawContours(arr, cs, h, w) ==
    LET painted == UNION {ContourPixels(c, h, w) : c \in cs}
    IN [i \in DOMAIN arr |-> IF i \in painted THEN <<255, 0, 0>> ELSE arr[i]]

(***************************************************************************)
(* analyze_tear_film_interference, image_processing.py 7-70.  The HSV      *)
(* image is OpenCV's output: the model draws one HSV value for the upper   *)
(* rows and one for the lower rows.                                        *)
(***************************************************************************)
\* a hue shared by the green and the yellow band, a blue one, an unsaturated pixel
HsvSamples == {<<40, 200, 200>>, <<120, 200, 200>>, <<60, 20, 200>>}

\* color_ranges: name, lower hue, upper hue (saturation and value in 50..255)
ColorRanges ==
    {<<"Blue_Interference", 100, 140>>, <<"Green_Interference", 40, 80>>,
     <<"Yellow_Interference", 20, 40>>, <<"Red_Interference", 0, 10>>}

\* cv2.inRange(hsv, lower, upper) at one pixel
InRange(hsv, band) ==
    /\ hsv[1] >= band[2] /\ hsv[1] <= band[3]
    /\ hsv[2] >= 50 /\ hsv[2] <= 255
    /\ hsv[3] >= 50 /\ hsv[3] <= 255

\* the bands whose share of the pixels exceeds 1%, with their pixel counts
ColorCount(hsv, D) ==
    LET count == [band \in ColorRanges |-> Cardinality({i \in D : InRange(hsv[i], band)})]
    IN {<<band[1], count[band]>> : band \in {b \in ColorRanges : 100 * count[b] > Cardinality(D)}}

RECURSIVE SumCounts(_)
SumCounts(cc) ==
    IF cc = {} THEN 0
    ELSE LET e == CHOOSE x \in cc : TRUE IN e[2] + SumCounts(cc \ {e})

InterferenceGrade(p) ==
    IF PctGT(p, 60) THEN "Excellent"
    ELSE IF PctGT(p, 40) THEN "Good"
    ELSE IF PctGT(p, 20) THEN "Fair"
    ELSE IF PctGT(p, 5) THEN "Poor"
    ELSE "Very Poor"

GetInterferenceInterpretation(grade) ==
    CASE grade = "Excellent" -> "Normal lipid layer thickness and spread - healthy tear film"
      [] grade = "Good" -> "Mild lipid layer abnormalities - minimal evaporation"
      [] grade = "Fair" -> "Moderate lipid layer disruption - increased evaporation likely"
      [] grade = "Poor" -> "Significant lipid layer deficiency - high evaporation risk"
      [] grade = "Very Poor" -> "Severe lipid layer abnormalities - marked evaporative dry eye"
      [] OTHER -> "Unable to interpret"

(***************************************************************************)
(* The images the analyses are run on.                                     *)
(***************************************************************************)
ImgH == 6          \* height of the block images
ImgW == 7          \* width of the block images
LatSide == 20      \* side of the lattice images
TinyW == 2         \* the tiny images have one row of 1..TinyW pixels

\* a rectangle of Stain (rows r0..r1, columns c0..c1) on Bg, one pixel of
\* the rectangle's second row replaced by the colour k
BlockImage(r0, r1, c0, c1, hc, k) ==
    [h |-> ImgH, w |-> ImgW, mode |-> "RGB",
     px |-> [i \in Pixels(ImgH, ImgW) |->
                IF i = (r0 + 1) * ImgW + hc THEN k
                ELSE IF /\ RowOf(i, ImgW) >= r0 /\ RowOf(i, ImgW) <= r1
                        /\ ColOf(i, ImgW) >= c0 /\ ColOf(i, ImgW) <= c1
                     THEN Stain ELSE Bg]]

\* rectangles 3 or 4 rows high and 3 to 6 columns wide, with the column of
\* the replaced pixel
BlockParams ==
    {q \in (0..(ImgH - 1)) \X (0..(ImgH - 1)) \X (0..(ImgW - 1)) \X (0..(ImgW - 1))
            \X (0..(ImgW - 1)) :
        /\ q[2] - q[1] \in {2, 3}
        /\ q[4] - q[3] \in 2..5
        /\ q[5] >= q[3] /\ q[5] <= q[4]}

BlockImages ==
    {BlockImage(q[1], q[2], q[3], q[4], q[5], k) : q \in BlockParams, k \in {Stain, Dark, White}}

\* Stain on the lattice row + 2 * col = 0 (mod 5), Dark on the pixels to its
\* right in the first dr rows, White two to its right in the first wr rows
LatticeImage(dr, wr) ==
    [h |-> LatSide, w |-> LatSide, mode |-> "RGB",
     px |-> [i \in Pixels(LatSide, LatSide) |->
                LET r == RowOf(i, LatSide)
                    k == (r + 2 * ColOf(i, LatSide)) % 5
                IN IF k = 0 THEN Stain
                   ELSE IF k = 1 /\ r < dr THEN Dark
                   ELSE IF k = 2 /\ r < wr THEN White
                   ELSE Bg]]

LatticeImages ==
    {LatticeImage(dr, wr) : dr \in {0, LatSide \div 2}, wr \in {0, (3 * LatSide) \div 4}}

TinyImages ==
    UNION {{[h |-> 1, w |-> n, mode |-> m, px |-> f] : f \in [Pixels(1, n) -> Palette]} :
              n \in 1..TinyW, m \in {"RGB", "L"}}

\* every pixel of the image has the colour k
UniformImage(k) ==
    [h |-> ImgH, w |-> ImgW, mode |-> "RGB", px |-> [i \in Pixels(ImgH, ImgW) |-> k]]

UniformImages == {UniformImage(k) : k \in Palette \cup {Gray}}

IsUniform(img) == \A i, j \in DOMAIN img.px : img.px[i] = img.px[j]

(***************************************************************************)
(* Specification of the image analyses: an image is drawn and one          *)
(* analysis is called on it.                                               *)
(***************************************************************************)
PyNone == [kind |-> "None"]

Init ==
    /\ image \in BlockImages \cup LatticeImages \cup TinyImages \cup UniformImages
    /\ pc = "idle"
    /\ result = NoResult
    /\ locals = NoLocals
    /\ log = <<>>
    /\ p1 = NoPct
    /\ p2 = NoPct
    /\ graded = NoGrades
    /\ tear_results = <<>>
    /\ refine = NoRefine
    /\ calls = <<>>
    /\ exc = NoExc
    /\ ui = NoUi
    /\ inv = NoInv
    /\ rng = NoRng
    /\ clinic = NoClinic

\* the exceptions the primary analysis can raise on the image: an array
\* without three channels raises at line 207; an array numpy or scipy cannot
\* allocate for raises MemoryError in the classification (226), the
\* refinement (232) or the quantification (249)
PrimaryFaults(img) ==
    IF img.mode # "RGB" THEN {[type |-> "IndexError", line |-> 207]}
    ELSE {NoFault} \cup {[type |-> "MemoryError", line |-> l] : l \in {226, 232, 249}}

\* the exceptions the fallback analysis can raise on the image
FallbackFaults(img) ==
    IF img.mode # "RGB" THEN {[type |-> "IndexError", line |-> 314]}
    ELSE {NoFault, [type |-> "MemoryError", line |-> 317]}

\* a handler that calls the fallback without showing the error
HandlerEntrySkipLog == "call_fallback"

\* app.py 305-308: the handler shows the error, then calls the fallback
HandlerEntry == "st_error"

\* app.py 201-304: the call and the body of the try block; an exception
\* leaves the image alone and enters the handler
AnalyzeFluoresceinStaining ==
    /\ pc = "idle"
    /\ calls' = Append(calls, "analyze_fluorescein_staining")
    /\ \E fault \in PrimaryFaults(image) :
          IF fault = NoFault
          THEN LET heap0 == [input |-> image.px]
                   img_array == NpArray("input")
                   heap1 == Bind(heap0, img_array, heap0["input"])
                   frame == PrimaryFrame([image EXCEPT !.px = heap1[img_array]])
                   result_array == NdarrayCopy(img_array)
                   heap2 == Bind(heap1, result_array, heap1[img_array])
                   heap3 == [heap2 EXCEPT ![result_array] =
                                RenderStaining(heap2[result_array], frame.valid_staining,
                                               frame.excluded)]
               IN /\ result' = PrimaryResult(image, frame, heap3[result_array])
                  /\ locals' = frame
                  /\ image' = [image EXCEPT !.px = heap3["input"]]
                  /\ pc' = "done"
                  /\ exc' = exc
          ELSE /\ exc' = [exc EXCEPT !.primary = fault]
               /\ pc' = HandlerEntry
               /\ UNCHANGED <<result, locals, image>>
    /\ UNCHANGED <<p1, p2, graded, log, tear_results, refine, ui, inv, rng, clinic>>

\* app.py 305-306: except Exception as e: st.error(...)
ExceptPrimary ==
    /\ pc = "st_error"
    /\ log' = Append(log, "Error in fluorescein staining analysis")
    /\ pc' = "call_fallback"
    /\ UNCHANGED <<p1, p2, graded, image, result, locals, tear_results, refine,
                   calls, exc, ui, inv, rng, clinic>>

\* app.py 310-361, entered at the position at: the body of the try block,
\* and the handler that shows the error and returns None
SimpleFluoresceinAnalysisImprovedAt(at) ==
    /\ pc = at
    /\ pc' = "done"
    /\ calls' = Append(calls, "simple_fluorescein_analysis_improved")
    /\ \E fault \in FallbackFaults(image) :
          IF fault = NoFault
          THEN LET heap0 == [input |-> image.px]
                   img_array == NpArray("input")
                   heap1 == Bind(heap0, img_array, heap0["input"])
                   frame == FallbackFrame([image EXCEPT !.px = heap1[img_array]])
                   result_array == NdarrayCopy(img_array)
                   heap2 == Bind(heap1, result_array, heap1[img_array])
                   heap3 == [heap2 EXCEPT ![result_array] =
                                RenderFallback(heap2[result_array], frame.staining_mask,
                                               frame.excluded)]
               IN /\ result' = FallbackResult(image, frame, heap3[result_array])
                  /\ locals' = frame
                  /\ image' = [image EXCEPT !.px = heap3["input"]]
                  /\ log' = log
                  /\ exc' = exc
          ELSE /\ result' = PyNone
               /\ locals' = NoLocals
               /\ image' = image
               /\ log' = Append(log, "Fallback analysis also failed")
               /\ exc' = [exc EXCEPT !.fallback = fault]
    /\ UNCHANGED <<p1, p2, graded, tear_results, refine, ui, inv, rng, clinic>>

\* app.py 308: return simple_fluorescein_analysis_improved(image)
ReturnFallback == SimpleFluoresceinAnalysisImprovedAt("call_fallback")

\* app.py 310-361, called on its own
SimpleFluoresceinAnalysisImproved == SimpleFluoresceinAnalysisImprovedAt("idle")

\* f"{x:.1f}" in tenths: the nearest tenth of the double x; where the exact
\* percentage lies halfway between two tenths, the double may lie on either
\* side of it
Format1f(p) ==
    LET lo == (10 * p.num) \div p.den
        rem2 == 2 * ((10 * p.num) % p.den)
    IN IF rem2 < p.den THEN {lo}
       ELSE IF rem2 > p.den THEN {lo + 1}
       ELSE {lo, lo + 1}

\* if staining_result: None is false, a dict with keys is true
Truthy(value) == value.kind # "None"

\* app.py 579-626 after the call returned: the metrics are rendered when the
\* result is true
RenderStainingResult ==
    /\ pc = "done"
    /\ calls # <<>>
    /\ calls[1] = "analyze_fluorescein_staining"
    /\ pc' = "rendered"
    /\ IF Truthy(result)
       THEN \E tenths \in Format1f(result.staining_percentage) :
               ui' = [kind |-> "metrics",
                      image |-> result.processed_image,
                      staining_grade |-> result.staining_grade,
                      staining_percentage |-> tenths,
                      lesion_count |-> result.lesion_count,
                      box |-> IF PctGT(result.staining_percentage, 8)
                              THEN "warning-box" ELSE "recommendation-box",
                      interpretation |-> result.interpretation]
       ELSE ui' = NoUi
    /\ UNCHANGED <<p1, p2, graded, image, result, locals, log, tear_results, refine,
                   calls, exc, inv, rng, clinic>>

\* image_processing.py 83-147
DetectCornealStaining ==
    /\ pc = "idle"
    /\ pc' = "done"
    /\ IF image.mode = "RGB"
       THEN \E contours \in ContourChoices(image.h, image.w) :
              LET significant_contours == {c \in contours : ContourArea(c) > min_area}
                  heap0 == [input |-> image.px]
                  result_image == NdarrayCopy("input")
                  heap1 == Bind(heap0, result_image, heap0["input"])
                  heap2 == [heap1 EXCEPT ![result_image] =
                               DrawContours(heap1[result_image], significant_contours,
                                            image.h, image.w)]
                  damage_percentage == Pct(100 * SumAreas(significant_contours),
                                           image.h * image.w)
              IN /\ result' = [kind |-> "detection", detected_areas |-> heap2[result_image],
                               staining_grade |-> DamageGrade(damage_percentage),
                               damage_percentage |-> damage_percentage,
                               contour_count |-> Cardinality(significant_contours),
                               interpretation |->
                                   GetStainingInterpretation(DamageGrade(damage_percentage))]
                 /\ image' = [image EXCEPT !.px = heap2["input"]]
                 /\ log' = log
       ELSE /\ result' = PyNone
            /\ image' = image
            /\ log' = Append(log, "Error in staining detection")
    /\ locals' = NoLocals
    /\ UNCHANGED <<p1, p2, graded, tear_results, refine, calls, exc, ui, inv, rng, clinic>>

\* image_processing.py 7-70; the conversions build new arrays and the CLAHE
\* result is written into the LAB array
AnalyzeTearFilmInterference ==
    /\ pc = "idle"
    /\ pc' = "done"
    /\ IF image.mode = "RGB"
       THEN \E top \in HsvSamples, bottom \in HsvSamples :
              LET D == Pixels(image.h, image.w)
                  hsv == [i \in D |-> IF 2 * RowOf(i, image.w) < image.h THEN top ELSE bottom]
                  color_count == ColorCount(hsv, D)
                  total_color_percentage == Pct(100 * SumCounts(color_count), Cardinality(D))
              IN result' = [kind |-> "interference",
                            interference_grade |-> InterferenceGrade(total_color_percentage),
                            color_count |-> Cardinality(color_count),
                            color_distribution |-> color_count,
                            total_color_percentage |-> total_color_percentage,
                            interpretation |-> GetInterferenceInterpretation(
                                InterferenceGrade(total_color_percentage))]
            /\ log' = log
       ELSE /\ result' = PyNone
            /\ log' = Append(log, "Error in interference analysis")
    /\ image' = image
    /\ locals' = NoLocals
    /\ UNCHANGED <<p1, p2, graded, tear_results, refine, calls, exc, ui, inv, rng, clinic>>

Next ==
    \/ AnalyzeFluoresceinStaining
    \/ ExceptPrimary
    \/ ReturnFallback
    \/ SimpleFluoresceinAnalysisImproved
    \/ RenderStainingResult
    \/ DetectCornealStaining
    \/ AnalyzeTearFilmInterference

Spec == Init /\ [][Next]_vars

(***************************************************************************)
(* analyze_tear_film_pattern, app.py 142-199.  random.uniform(a, b) and    *)
(* random.randint(a, b) are drawn from the two ends of their range.        *)
(***************************************************************************)
MaxCalls == 2      \* invocations of analyze_tear_film_pattern on one image

RandomSamples(a, b) == {a, b}

RECURSIVE SumTo(_, _)
SumTo(f, n) == IF n = 0 THEN 0 ELSE f[n - 1] + SumTo(f, n - 1)

\* the sum of channel ch (1..3) over the image
ChannelSum(img, ch) == SumTo([i \in DOMAIN img.px |-> img.px[i][ch]], img.h * img.w)

\* the sum of the squares of all channel values
SquareSum(img) ==
    SumTo([i \in DOMAIN img.px |->
              img.px[i][1] * img.px[i][1] + img.px[i][2] * img.px[i][2]
              + img.px[i][3] * img.px[i][3]], img.h * img.w)

\* the grade chosen by lines 156-175: brightness = np.mean(img_array),
\* contrast = np.std(img_array), r_mean, g_mean, b_mean the channel means
PatternGrade(img) ==
    LET n3 == 3 * img.h * img.w
        r == ChannelSum(img, 1)
        g == ChannelSum(img, 2)
        b == ChannelSum(img, 3)
        total == r + g + b
    IN IF total < 100 * n3 THEN "Poor"
       ELSE IF n3 * SquareSum(img) - total * total < 900 * n3 * n3 THEN "Fair"
       ELSE IF r > g /\ r > b THEN "Good"
       ELSE "Excellent"

\* the results lines 156-182 can return for a grade
PatternResults(grade) ==
    CASE grade = "Poor" ->
           {[grade |-> grade, coverage |-> c, quality_score |-> q,
             interpretation |-> "Low interference pattern - significant lipid layer deficiency"] :
               c \in RandomSamples(15, 30), q \in RandomSamples(3, 5)}
      [] grade = "Fair" ->
           {[grade |-> grade, coverage |-> c, quality_score |-> q,
             interpretation |-> "Moderate interference - mild evaporative dry eye"] :
               c \in RandomSamples(30, 50), q \in RandomSamples(5, 7)}
      [] grade = "Good" ->
           {[grade |-> grade, coverage |-> c, quality_score |-> q,
             interpretation |-> "Yellow-orange pattern - normal lipid layer"] :
               c \in RandomSamples(50, 70), q \in RandomSamples(7, 9)}
      [] grade = "Excellent" ->
           {[grade |-> grade, coverage |-> c, quality_score |-> q,
             interpretation |-> "Rich colorful pattern - healthy tear film"] :
               c \in RandomSamples(70, 85), q \in RandomSamples(8, 10)}

\* the results of the exception path, lines 184-199
PatternFallbackResults ==
    {[grade |-> gr, coverage |-> c, quality_score |-> q, interpretation |-> t] :
        gr \in {"Poor", "Fair", "Good", "Excellent"},
        c \in RandomSamples(20, 80), q \in RandomSamples(4, 10),
        t \in {"Low interference pattern - significant lipid layer deficiency",
               "Moderate interference - mild evaporative dry eye",
               "Yellow-orange pattern - normal lipid layer",
               "Rich colorful pattern - healthy tear film"}}

\* the tiny images, those without a channel axis only with a uniform background
TearImages ==
    {img \in TinyImages : img.mode = "RGB" \/ \A i \in DOMAIN img.px : img.px[i] = Bg}

InitTear ==
    /\ image \in TearImages
    /\ tear_results = <<>>
    /\ refine = NoRefine
    /\ calls = <<>>
    /\ exc = NoExc
    /\ ui = NoUi
    /\ inv = NoInv
    /\ rng = NoRng
    /\ clinic = NoClinic
    /\ pc = "idle"
    /\ result = NoResult
    /\ locals = NoLocals
    /\ log = <<>>
    /\ p1 = NoPct
    /\ p2 = NoPct
    /\ graded = NoGrades

\* one invocation on the image; an array without a channel axis raises at
\* line 148 and takes the exception path
AnalyzeTearFilmPattern ==
    /\ Len(tear_results) < MaxCalls
    /\ \E r \in (IF image.mode = "RGB" THEN PatternResults(PatternGrade(image))
                 ELSE PatternFallbackResults) :
          tear_results' = Append(tear_results, r)
    /\ UNCHANGED <<image, pc, result, locals, log, p1, p2, graded, refine, calls, exc, ui, inv, rng, clinic>>

NextTear == AnalyzeTearFilmPattern

SpecTear == InitTear /\ [][NextTear]_vars

(***************************************************************************)
(* C4-C10: the fluorescein analyses.                                       *)
(***************************************************************************)
PrimaryReturned == pc = "done" /\ result.kind = "metrics" /\ locals.kind = "primary"
FallbackReturned == pc = "done" /\ result.kind = "metrics" /\ locals.kind = "fallback"

\* C4: the percentage of the primary analysis is
\* 100 * count(mask AND roi) / count(roi); mask pixels outside the corneal
\* area are not counted.
C4_PercentageCountsOnlyRoi ==
    (PrimaryReturned /\ locals.corneal_area_mask # {}) =>
        result.staining_percentage.num * Cardinality(locals.corneal_area_mask)
            = 100 * Cardinality(locals.staining_mask \cap locals.corneal_area_mask)
                * result.staining_percentage.den

\* C5: the analysis (primary or fallback) returns 0 <= staining_percentage <= 100.
C5_PercentageBounds ==
    (pc = "done" /\ result.kind = "metrics") =>
        /\ result.staining_percentage.num >= 0
        /\ result.staining_percentage.num <= 100 * result.staining_percentage.den

\* C6: with an empty region of interest the analysis fails instead of
\* returning metrics.
C6_EmptyRoiFails ==
    (pc = "done" /\ locals.kind \in {"primary", "fallback"}
        /\ locals.corneal_area_mask = {}) => result.kind # "metrics"

C9_InputNeverMutated == [][image' = image]_vars

\* a detection that painted contours into its result image
C9_Witness ==
    /\ pc = "done"
    /\ result.kind = "detection"
    /\ result.contour_count > 0
    /\ result.detected_areas # image.px

\* C10: the lesion count is the number of 8-connected components of the
\* mask within the region of interest.
C10_LesionsAreEightConnected ==
    PrimaryReturned =>
        result.lesion_count
            = Cardinality(Components(locals.valid_staining, image.h, image.w,
                                     FullNeighbourOffsets))

(***************************************************************************)
(* C7: determinism of analyze_tear_film_pattern.                           *)
(***************************************************************************)
\* C7: two invocations of the analysis on the same image return identical
\* metrics, grade and interpretation.
C7_Deterministic ==
    \A i, j \in 1..Len(tear_results) : tear_results[i] = tear_results[j]

(***************************************************************************)
(* Specification of the mask refinement (app.py 231-242) on its own: a     *)
(* candidate mask is drawn, and the closing, the opening and the removal   *)
(* of small components are applied to it, then applied again to their own  *)
(* output.  The lesion count is taken of the refined mask as line 277      *)
(* takes it; the candidates lie in the corneal area by line 226-229, and   *)
(* so does every refined mask that adds no pixel to them.                  *)
(***************************************************************************)
MaxPasses == 2     \* refinement passes applied to one mask
MaskH == 5         \* grid of the rectangle-and-cross masks
MaskW == 12
SqH == 7           \* grid of the two-square masks
SqW == 15
BigH == 150        \* grids of the two-square masks around 21,000 pixels
BigW == 140

\* the pixel at row r, column c of a grid w wide
At(r, c, w) == r * w + c

\* a rectangle 3 or 4 rows high and 3 to 6 columns wide, as <<r0, r1, c0, c1>>
RectParams ==
    {q \in (0..(MaskH - 1)) \X (0..(MaskH - 1)) \X (0..(MaskW - 1)) \X (0..(MaskW - 1)) :
        /\ q[2] - q[1] \in {2, 3}
        /\ q[4] - q[3] \in 2..5}

Rect(q, w) == {At(r, c, w) : r \in q[1]..q[2], c \in q[3]..q[4]}

\* a cross centred in the middle row at column cc, cut at the grid's sides;
\* cc = -1 stands for no cross
Cross(cc, h, w) ==
    IF cc < 0 THEN {}
    ELSE {At(h \div 2 + d[1], cc + d[2], w) :
            d \in {e \in CrossOffsets \cup {<<0, 0>>} : cc + e[2] >= 0 /\ cc + e[2] < w}}

RectCrossMasks ==
    {[h |-> MaskH, w |-> MaskW, scenario |-> <<"rect_cross", q>>,
      candidates |-> Rect(q, MaskW) \cup Cross(cc, MaskH, MaskW)] :
        q \in RectParams, cc \in -1..(MaskW - 1)}

\* the 5x5 square whose top left pixel is at row r, column c
Square(r, c, w) == {At(r + a, c + b, w) : a \in 0..4, b \in 0..4}

\* two squares with at least 3 columns of background between them
SquarePairs(h, w) ==
    {q \in (0..(h - 5)) \X (0..(w - 5)) \X (0..(h - 5)) \X (0..(w - 5)) :
        q[4] - q[2] >= 8}

TwoSquares(q, w) == Square(q[1], q[2], w) \cup Square(q[3], q[4], w)

\* neither square touches the border of the grid
Interior(q, h, w) ==
    /\ q[1] >= 1 /\ q[1] + 5 < h /\ q[2] >= 1
    /\ q[3] >= 1 /\ q[3] + 5 < h /\ q[4] + 5 < w

TwoSquareMasks ==
    {[h |-> SqH, w |-> SqW, scenario |-> <<"two_squares", q>>,
      candidates |-> TwoSquares(q, SqW)] : q \in SquarePairs(SqH, SqW)}
    \cup
    {[h |-> BigH, w |-> bw, scenario |-> <<"two_squares", <<1, 1, 1, 9>>>>,
      candidates |-> TwoSquares(<<1, 1, 1, 9>>, bw)] : bw \in {BigW, BigW + 1}}

\* a rectangle with a hole of one pixel next to its top left corner
RectHoleMasks ==
    {[h |-> MaskH, w |-> MaskW, scenario |-> <<"rect_hole", q>>,
      candidates |-> Rect(q, MaskW) \ {At(q[1] + 1, q[3] + 1, MaskW)}] : q \in RectParams}

\* cv2.erode with np.ones((3,3)): the default border never erodes
Cv2Erode(mask, h, w) ==
    {i \in mask : Neighbours(i, h, w, FullNeighbourOffsets) \subseteq mask}

\* cv2.dilate with np.ones((3,3))
Cv2Dilate(mask, h, w) ==
    {i \in Pixels(h, w) :
        i \in mask \/ Neighbours(i, h, w, FullNeighbourOffsets) \cap mask # {}}

\* cv2.morphologyEx(mask, op, kernel)
MorphologyEx(mask, op, h, w) ==
    CASE op = "MORPH_OPEN" -> Cv2Dilate(Cv2Erode(mask, h, w), h, w)
      [] op = "MORPH_CLOSE" -> Cv2Erode(Cv2Dilate(mask, h, w), h, w)

\* the operations of app.py 232-233, in the order of the statements
RefineOps == <<"binary_closing", "binary_opening">>

\* the operations of image_processing.py 101-102, in the order of the
\* statements
DetectOps == <<"MORPH_OPEN", "MORPH_CLOSE">>

\* cleaned: each operation applied to the output of the one before it
RECURSIVE Cleaned(_, _, _, _)
Cleaned(binary, ops, h, w) ==
    IF ops = <<>> THEN binary
    ELSE Cleaned(MorphologyEx(binary, Head(ops), h, w), Tail(ops), h, w)

InitRefine ==
    /\ \E m \in RectCrossMasks \cup TwoSquareMasks \cup RectHoleMasks :
          refine = [h |-> m.h, w |-> m.w, scenario |-> m.scenario,
                    candidates |-> m.candidates, mask |-> m.candidates,
                    passes |-> 0, num_lesions |-> 0, fn |-> "none", ops |-> <<>>]
    /\ image = NoImage
    /\ pc = "idle"
    /\ result = NoResult
    /\ locals = NoLocals
    /\ log = <<>>
    /\ p1 = NoPct
    /\ p2 = NoPct
    /\ graded = NoGrades
    /\ tear_results = <<>>
    /\ calls = <<>>
    /\ exc = NoExc
    /\ ui = NoUi
    /\ inv = NoInv
    /\ rng = NoRng
    /\ clinic = NoClinic

\* app.py 231-242 applied to the current mask, and line 277 to its output
RefinePass ==
    /\ refine.passes < MaxPasses
    /\ refine.fn \in {"none", "analyze_fluorescein_staining"}
    /\ LET mask == RefineMask(refine.mask, refine.h, refine.w)
       IN refine' = [refine EXCEPT !.mask = mask, !.passes = @ + 1,
                                   !.num_lesions = NumLesions(mask, refine.h, refine.w),
                                   !.fn = "analyze_fluorescein_staining",
                                   !.ops = @ \o RefineOps]
    /\ UNCHANGED <<p1, p2, graded, image, pc, result, locals, log, tear_results, calls, exc, ui, inv, rng, clinic>>

\* image_processing.py 100-102 applied to the mask as the thresholded image
CleanDetection ==
    /\ refine.fn = "none"
    /\ refine' = [refine EXCEPT !.mask = Cleaned(refine.mask, DetectOps, refine.h, refine.w),
                                !.fn = "detect_corneal_staining",
                                !.ops = DetectOps]
    /\ UNCHANGED <<p1, p2, graded, image, pc, result, locals, log, tear_results, calls, exc, ui, inv, rng, clinic>>

NextRefine == RefinePass \/ CleanDetection

SpecRefine == InitRefine /\ [][NextRefine]_vars

\* C11: the refinement is idempotent: applied to a mask it has already
\* refined, it returns that mask unchanged, whatever the original mask was.
C11_RefinementIdempotent ==
    [][refine.passes >= 1 => refine'.mask = refine.mask]_vars

\* a second pass over a refined mask that is not empty, and from which the
\* first pass had removed a small component
C11_Witness ==
    /\ refine.passes = 2
    /\ refine.mask # {}
    /\ refine.mask # BinaryOpening(BinaryClosing(refine.candidates, refine.h, refine.w),
                                   refine.h, refine.w)

(***************************************************************************)
(* C13: Scenario C, two 5x5 squares of candidate pixels.                   *)
(***************************************************************************)
TwoSquaresRefined == refine.passes >= 1 /\ refine.scenario[1] = "two_squares"

\* C13 as stated: when the candidate pixels form two disjoint 5x5 squares
\* separated by at least 3 background pixels, the lesion count is exactly 2.
C13_Original_TwoSquaresTwoLesions ==
    TwoSquaresRefined => refine.num_lesions = 2

\* C13: when the candidate pixels form two disjoint 5x5 squares separated by
\* at least 3 background pixels, the refinement does not merge them: every
\* component of the refined mask lies within one square; and the lesion
\* count is exactly 2 when neither square touches the image border and the
\* image has at most 21,000 pixels, so that the 21 pixels the opening leaves
\* of a square reach the minimum component size.
C13_TwoSquaresNotMerged ==
    TwoSquaresRefined =>
        LET q == refine.scenario[2]
        IN /\ \A c \in Label(refine.mask, refine.h, refine.w) :
                \/ c \subseteq Square(q[1], q[2], refine.w)
                \/ c \subseteq Square(q[3], q[4], refine.w)
           /\ (Interior(q, refine.h, refine.w) /\ refine.h * refine.w <= 21000)
                 => refine.num_lesions = 2

\* two squares off the border, refined to two lesions of 21 pixels
C13_Witness ==
    /\ TwoSquaresRefined
    /\ Interior(refine.scenario[2], refine.h, refine.w)
    /\ refine.num_lesions = 2
    /\ \A c \in Label(refine.mask, refine.h, refine.w) : Cardinality(c) = 21

(***************************************************************************)
(* C12: Scenario A, a uniform image.                                       *)
(***************************************************************************)
\* C12: on an image whose pixels all have the same colour, no pixel exceeds
\* the percentile threshold, so the primary analysis returns an empty mask,
\* a percentage of 0, a lesion count of 0 and the grade None.
C12_UniformImageNoStaining ==
    (PrimaryReturned /\ IsUniform(image)) =>
        /\ locals.staining_mask = {}
        /\ result.staining_percentage.num = 0
        /\ result.lesion_count = 0
        /\ result.staining_grade = "None (Grade 0)"

\* the primary analysis of the uniform gray image (128, 128, 128)
C12_Witness ==
    /\ PrimaryReturned
    /\ image = UniformImage(Gray)
    /\ result.staining_grade = "None (Grade 0)"

(***************************************************************************)
(* C14 - C17: the failure paths of one invocation of                       *)
(* analyze_fluorescein_staining and what main shows of its result.         *)
(***************************************************************************)
Primary == "analyze_fluorescein_staining"
Fallback == "simple_fluorescein_analysis_improved"

\* the invocation under way entered through analyze_fluorescein_staining
PrimaryInvoked == calls # <<>> /\ calls[1] = Primary

FallbackEntries == {i \in DOMAIN calls : calls[i] = Fallback}

\* C14: within one invocation of analyze_fluorescein_staining the fallback
\* is entered at most once, only after the primary analysis has raised, and
\* only when the primary's failure has already been logged.
C14_FallbackOnceAfterLoggedFailure ==
    [][(PrimaryInvoked /\ calls' = Append(calls, Fallback)) =>
          /\ FallbackEntries = {}
          /\ exc.primary # NoFault
          /\ log # <<>>
          /\ log[1] = "Error in fluorescein staining analysis"]_vars

\* the fallback returned metrics after the primary analysis had failed and
\* its failure had been logged
C14_Witness ==
    /\ pc = "done"
    /\ calls = <<Primary, Fallback>>
    /\ exc.primary # NoFault
    /\ log = <<"Error in fluorescein staining analysis">>
    /\ result.kind = "metrics"

\* C15: when the primary analysis and the fallback both fail, the invocation
\* ends in an error raised to its caller, not in a normal return.
C15_BothFailuresPropagate ==
    (pc = "done" /\ PrimaryInvoked /\ exc.primary # NoFault /\ exc.fallback # NoFault)
        => result.kind = "raised"

\* C16: a failure in the classification, refinement or quantification of the
\* primary analysis reaches the caller as an error; the fallback is entered
\* only after the failure of an image without the expected channels.
C16_PipelineFailuresVisible ==
    PrimaryInvoked =>
        /\ FallbackEntries # {} => exc.primary = [type |-> "IndexError", line |-> 207]
        /\ (pc = "done" /\ exc.primary.line \in {226, 232, 249}) => result.kind = "raised"

\* C17: when the analysis computed no valid metrics (both analyses failed,
\* or the region of interest was empty), main renders no staining metrics.
C17_NoMetricsRenderedWhenInvalid ==
    (/\ pc = "rendered"
     /\ \/ result = PyNone
        \/ result.kind = "metrics" /\ locals.corneal_area_mask = {})
        => ui.kind = "nothing"

(***************************************************************************)
(* C18: one grade table for the primary analysis and the fallback.         *)
(***************************************************************************)
\* C18: the grade is a function of the percentage through one fixed table
\* with the values None, Trace, Mild, Moderate and Severe: the ladder of the
\* primary analysis and the ladder of the fallback give the same percentage
\* the same grade.
C18_SameGradeOnBothPaths ==
    graded.kind = "graded" =>
        /\ Severity(graded.staining1) = Severity(graded.fallback1)
        /\ Severity(graded.staining2) = Severity(graded.fallback2)

(***************************************************************************)
(* Specification of two invocations under way at once (two sessions of     *)
(* the app, one thread each).  Each invocation has its own frame; the      *)
(* generator behind random.uniform, random.randint and random.choice is    *)
(* the module-level instance of the random module, one for the process.    *)
(* Its seed is not set by the program: the stream of its outputs is any    *)
(* sequence, fixed at the start, and every draw takes the next output.     *)
(* An output picks an end of the range it is drawn for.                    *)
(***************************************************************************)
MaxDraws == 8      \* outputs of the generator that are followed

Streams == [0..(MaxDraws - 1) -> {0, 1}]

\* the value a draw from the choices <<first, ..., last>> returns on output u
Pick(choices, u) == IF u = 0 THEN choices[1] ELSE choices[Len(choices)]

Interpretations ==
    <<"Low interference pattern - significant lipid layer deficiency",
      "Moderate interference - mild evaporative dry eye",
      "Yellow-orange pattern - normal lipid layer",
      "Rich colorful pattern - healthy tear film">>

Grades == <<"Poor", "Fair", "Good", "Excellent">>

\* the draws one invocation of analyze_tear_film_pattern makes: two in the
\* try block (lines 158-175), four in the exception path (194-198)
DrawsNeeded(img) == IF img.mode = "RGB" THEN 2 ELSE 4

\* the ranges lines 156-175 draw from for a grade
CoverageRange(grade) ==
    CASE grade = "Poor" -> <<15, 30>>
      [] grade = "Fair" -> <<30, 50>>
      [] grade = "Good" -> <<50, 70>>
      [] grade = "Excellent" -> <<70, 85>>

QualityRange(grade) ==
    CASE grade = "Poor" -> <<3, 5>>
      [] grade = "Fair" -> <<5, 7>>
      [] grade = "Good" -> <<7, 9>>
      [] grade = "Excellent" -> <<8, 10>>

InterpretationOf(grade) ==
    CASE grade = "Poor" -> Interpretations[1]
      [] grade = "Fair" -> Interpretations[2]
      [] grade = "Good" -> Interpretations[3]
      [] grade = "Excellent" -> Interpretations[4]

\* the result of analyze_tear_film_pattern on img when its draws returned
\* the outputs d, in the order of the draws
PatternResult(img, d) ==
    IF img.mode = "RGB"
    THEN LET grade == PatternGrade(img)
         IN [grade |-> grade,
             coverage |-> Pick(CoverageRange(grade), d[1]),
             quality_score |-> Pick(QualityRange(grade), d[2]),
             interpretation |-> InterpretationOf(grade)]
    ELSE [grade |-> Pick(Grades, d[1]),
          coverage |-> Pick(<<20, 80>>, d[2]),
          quality_score |-> Pick(<<4, 10>>, d[3]),
          interpretation |-> Pick(Interpretations, d[4])]

\* the result of analyze_fluorescein_staining on an image with three
\* channels: the arrays of lines 205-277 are locals of the call's frame
StainingResult(img) ==
    LET heap0 == [input |-> img.px]
        img_array == NpArray("input")
        heap1 == Bind(heap0, img_array, heap0["input"])
        frame == PrimaryFrame([img EXCEPT !.px = heap1[img_array]])
        result_array == NdarrayCopy(img_array)
        heap2 == Bind(heap1, result_array, heap1[img_array])
    IN PrimaryResult(img, frame,
                     RenderStaining(heap2[result_array], frame.valid_staining,
                                    frame.excluded))

\* the 1x1 images: three with channels, one without
SessionImages ==
    {img \in TinyImages :
        /\ img.w = 1
        /\ \/ img.mode = "RGB" /\ img.px[0] \in {Dark, White, Amber}
           \/ img.mode = "L" /\ img.px[0] = Bg}

\* an invocation not yet started: the function called and its image
Invocations ==
    {[fn |-> f, image |-> img, pc |-> "idle", draws |-> <<>>, result |-> NoResult] :
        f \in {"analyze_tear_film_pattern", "analyze_fluorescein_staining"},
        img \in SessionImages}

InitInterleave ==
    /\ inv \in {pair \in Invocations \X Invocations :
                  /\ pair[1].image # pair[2].image
                  /\ \A i \in 1..2 : pair[i].fn = "analyze_fluorescein_staining"
                                        => pair[i].image.mode = "RGB"}
    /\ rng \in {[stream |-> st, pos |-> 0] : st \in Streams}
    /\ image = NoImage
    /\ pc = "idle"
    /\ result = NoResult
    /\ locals = NoLocals
    /\ log = <<>>
    /\ p1 = NoPct
    /\ p2 = NoPct
    /\ graded = NoGrades
    /\ tear_results = <<>>
    /\ refine = NoRefine
    /\ calls = <<>>
    /\ exc = NoExc
    /\ ui = NoUi
    /\ clinic = NoClinic

\* one draw of invocation i of analyze_tear_film_pattern (a call of
\* random.uniform, random.randint or random.choice); the invocation returns
\* after its last draw
PatternDraw(i) ==
    /\ inv[i].fn = "analyze_tear_film_pattern"
    /\ inv[i].pc # "done"
    /\ rng.pos < MaxDraws
    /\ LET d == Append(inv[i].draws, rng.stream[rng.pos])
           last == Len(d) = DrawsNeeded(inv[i].image)
       IN inv' = [inv EXCEPT ![i] =
                     [@ EXCEPT !.draws = d,
                               !.pc = IF last THEN "done" ELSE "running",
                               !.result = IF last THEN PatternResult(inv[i].image, d)
                                          ELSE @]]
    /\ rng' = [rng EXCEPT !.pos = @ + 1]
    /\ UNCHANGED <<p1, p2, graded, image, pc, result, locals, log, tear_results,
                   refine, calls, exc, ui, clinic>>

\* invocation i of analyze_fluorescein_staining, lines 203-303
StainingCall(i) ==
    /\ inv[i].fn = "analyze_fluorescein_staining"
    /\ inv[i].pc = "idle"
    /\ inv' = [inv EXCEPT ![i] = [@ EXCEPT !.pc = "done",
                                           !.result = StainingResult(inv[i].image)]]
    /\ UNCHANGED <<p1, p2, graded, image, pc, result, locals, log, tear_results,
                   refine, calls, exc, ui, rng, clinic>>

NextInterleave == \E i \in 1..2 : PatternDraw(i) \/ StainingCall(i)

SpecInterleave == InitInterleave /\ [][NextInterleave]_vars

\* the result of the invocation run alone: its draws take the first outputs
\* of the generator
Alone(invocation) ==
    IF invocation.fn = "analyze_tear_film_pattern"
    THEN PatternResult(invocation.image,
                       [k \in 1..DrawsNeeded(invocation.image) |-> rng.stream[k - 1]])
    ELSE StainingResult(invocation.image)

\* C19: invocations share no mutable state: each of two interleaved
\* invocations of analyze_fluorescein_staining or analyze_tear_film_pattern
\* on different images returns the result it returns when run alone.
C19_InterleavingInvisible ==
    \A i \in DOMAIN inv : inv[i].pc = "done" => inv[i].result = Alone(inv[i])

(***************************************************************************)
(* C20: the intensity of a pixel.                                          *)
(***************************************************************************)
\* C20: in the primary analysis and in the fallback the intensity of every
\* pixel is (R + G + B) / 3, also when R + G + B exceeds 255: three times
\* the intensity is the sum of the pixel's channels.
C20_IntensityIsChannelMean ==
    (pc = "done" /\ locals.kind \in {"primary", "fallback"}) =>
        \A i \in DOMAIN image.px :
            locals.intensity3[i] = image.px[i][1] + image.px[i][2] + image.px[i][3]

(***************************************************************************)
(* C21: the order of the morphological operations.                         *)
(***************************************************************************)
ClosingOps == {"binary_closing", "MORPH_CLOSE"}
OpeningOps == {"binary_opening", "MORPH_OPEN"}

\* C21: every mask refinement applies the closing first and the opening
\* second, in analyze_fluorescein_staining and in detect_corneal_staining:
\* the operations come in pairs of a closing followed by an opening, and the
\* cleaned mask of the detection is the opening of the closing of its input.
C21_ClosingBeforeOpening ==
    /\ \A k \in DOMAIN refine.ops :
          IF k % 2 = 1 THEN refine.ops[k] \in ClosingOps ELSE refine.ops[k] \in OpeningOps
    /\ refine.fn = "detect_corneal_staining" =>
          refine.mask = MorphologyEx(MorphologyEx(refine.candidates, "MORPH_CLOSE",
                                                  refine.h, refine.w),
                                     "MORPH_OPEN", refine.h, refine.w)

(***************************************************************************)
(* C22: the minimum component size.                                        *)
(***************************************************************************)
\* C22: after the removal of small components no component of the staining
\* mask is smaller than max(10, 0.1% of the image's pixels), and every
\* lesion counted in lesion_count has at least that many pixels.
C22_NoLesionBelowFloor ==
    PrimaryReturned =>
        /\ \A c \in Label(locals.staining_mask, image.h, image.w) :
              ~BelowMinSize(Cardinality(c), image.h * image.w)
        /\ \A c \in Label(locals.valid_staining, image.h, image.w) :
              ~BelowMinSize(Cardinality(c), image.h * image.w)
        /\ result.lesion_count = Cardinality(Label(locals.valid_staining, image.h, image.w))

(***************************************************************************)
(* C23: the colour bands of analyze_tear_film_interference.                *)
(***************************************************************************)
\* C23: the total_color_percentage of analyze_tear_film_interference lies in
\* [0, 100] for every image: no pixel is counted in more than one band.
C23_TotalColorPercentageBounds ==
    (pc = "done" /\ result.kind = "interference") =>
        /\ result.total_color_percentage.num >= 0
        /\ result.total_color_percentage.num <= 100 * result.total_color_percentage.den

(***************************************************************************)
(* C24: consistency of the results of analyze_tear_film_pattern.           *)
(***************************************************************************)
\* C24: every result of analyze_tear_film_pattern, also of its exception
\* path, carries the interpretation paired with its grade, and a coverage
\* and a quality_score within the ranges of that grade.
C24_PatternResultConsistent ==
    \A k \in DOMAIN tear_results :
        LET r == tear_results[k]
        IN /\ r.interpretation = InterpretationOf(r.grade)
           /\ r.coverage >= CoverageRange(r.grade)[1]
           /\ r.coverage <= CoverageRange(r.grade)[2]
           /\ r.quality_score >= QualityRange(r.grade)[1]
           /\ r.quality_score <= QualityRange(r.grade)[2]

(***************************************************************************)
(* calculate_dry_eye_type, tear_analysis.py 29-162.  The tear break-up     *)
(* time is counted in half seconds and the tear meniscus height in steps   *)
(* of 0.05 mm, the steps of the inputs of app.py 453-457.                  *)
(***************************************************************************)
Min(a, b) == IF a < b THEN a ELSE b

\* convert_staining_to_numeric: staining_map.get(staining_string, 0)
ConvertStainingToNumeric(staining_string) ==
    CASE staining_string = "0 - None" -> 0
      [] staining_string = "I - Mild" -> 1
      [] staining_string = "II - Moderate" -> 2
      [] staining_string = "III - Marked" -> 3
      [] staining_string = "IV - Severe" -> 4
      [] staining_string = "V - Extreme" -> 5
      [] OTHER -> 0

\* calculate_aqueous_score; tmh20 = 20 * tmh
CalculateAqueousScore(tmh20, schirmer) ==
    LET tmh_part == IF tmh20 < 4 THEN 3 ELSE IF tmh20 < 6 THEN 1 ELSE 0
        schirmer_part == IF schirmer < 5 THEN 3
                         ELSE IF schirmer < 10 THEN 2
                         ELSE IF schirmer < 15 THEN 1 ELSE 0
    IN Min(tmh_part + schirmer_part, 6)

\* calculate_evaporative_score; tbut2 = 2 * tbut
CalculateEvaporativeScore(tbut2, meibomian_grade, meiboscore) ==
    LET tbut_part == IF tbut2 < 10 THEN 3
                     ELSE IF tbut2 < 20 THEN 2
                     ELSE IF tbut2 < 30 THEN 1 ELSE 0
    IN Min(tbut_part + meibomian_grade + meiboscore, 6)

\* calculate_inflammatory_score
CalculateInflammatoryScore(corneal_staining, conjunctival_staining) ==
    corneal_staining + conjunctival_staining

\* calculate_symptom_score
CalculateSymptomScore(osdi_score, deq5_score) ==
    LET osdi_part == IF osdi_score > 50 THEN 3
                     ELSE IF osdi_score > 33 THEN 2
                     ELSE IF osdi_score > 22 THEN 1 ELSE 0
        deq5_part == IF deq5_score > 12 THEN 3
                     ELSE IF deq5_score > 8 THEN 2
                     ELSE IF deq5_score > 6 THEN 1 ELSE 0
    IN Min(osdi_part + deq5_part, 4)

\* classify_tfos_dry_eye
ClassifyTfosDryEye(aqueous_score, evaporative_score) ==
    IF aqueous_score >= 4 /\ evaporative_score < 3 THEN "Pure Aqueous Deficiency"
    ELSE IF evaporative_score >= 4 /\ aqueous_score < 3 THEN "Pure Evaporative"
    ELSE IF aqueous_score >= 3 /\ evaporative_score >= 3 THEN "Mixed Mechanism"
    ELSE "Subclinical/Pre-clinical"

\* tear_analysis.py 48-55
DryEyeType(aqueous_score, evaporative_score) ==
    IF aqueous_score >= 6 /\ evaporative_score < 4 THEN "Aqueous Deficient Dry Eye (ADDE)"
    ELSE IF evaporative_score >= 6 /\ aqueous_score < 4 THEN "Evaporative Dry Eye (EDE)"
    ELSE IF aqueous_score >= 4 /\ evaporative_score >= 4 THEN "Mixed Dry Eye"
    ELSE "Subclinical or No Dry Eye"

\* tear_analysis.py 58-65
DryEyeSeverity(total_score) ==
    IF total_score >= 12 THEN "Severe"
    ELSE IF total_score >= 8 THEN "Moderate"
    ELSE IF total_score >= 4 THEN "Mild"
    ELSE "None"

\* calculate_dry_eye_type
CalculateDryEyeTypeResult(a) ==
    LET aqueous_score == CalculateAqueousScore(a.tmh20, a.schirmer)
        evaporative_score ==
            CalculateEvaporativeScore(a.tbut2, a.meibomian_grade, a.meiboscore)
        inflammatory_score ==
            CalculateInflammatoryScore(ConvertStainingToNumeric(a.corneal_staining),
                                       ConvertStainingToNumeric(a.conjunctival_staining))
        symptom_score == CalculateSymptomScore(a.osdi_score, a.deq5_score)
        total_score == aqueous_score + evaporative_score + inflammatory_score + symptom_score
    IN [dry_eye_type |-> DryEyeType(aqueous_score, evaporative_score),
        severity |-> DryEyeSeverity(total_score),
        total_score |-> total_score,
        component_scores |-> [aqueous_deficiency |-> aqueous_score,
                              evaporative |-> evaporative_score,
                              inflammatory |-> inflammatory_score,
                              symptomatic |-> symptom_score],
        tfos_classification |-> ClassifyTfosDryEye(aqueous_score, evaporative_score)]

\* the findings the function is called with: values on both sides of every
\* cutoff
DryEyeArgs ==
    [tmh20 : {3, 4, 5, 6}, schirmer : {4, 5, 9, 10, 14, 15},
     tbut2 : {9, 10, 19, 20, 29, 30}, meibomian_grade : 0..4, meiboscore : 0..3,
     osdi_score : {22, 51}, deq5_score : {6, 13},
     corneal_staining : {"0 - None", "V - Extreme"},
     conjunctival_staining : {"I - Mild", "not recorded"}]

InitDryEye ==
    /\ clinic \in {[fn |-> "calculate_dry_eye_type", args |-> a, pc |-> "idle",
                    result |-> NoResult] : a \in DryEyeArgs}
    /\ image = NoImage
    /\ pc = "idle"
    /\ result = NoResult
    /\ locals = NoLocals
    /\ log = <<>>
    /\ p1 = NoPct
    /\ p2 = NoPct
    /\ graded = NoGrades
    /\ tear_results = <<>>
    /\ refine = NoRefine
    /\ calls = <<>>
    /\ exc = NoExc
    /\ ui = NoUi
    /\ inv = NoInv
    /\ rng = NoRng

CalculateDryEyeType ==
    /\ clinic.fn = "calculate_dry_eye_type"
    /\ clinic.pc = "idle"
    /\ clinic' = [clinic EXCEPT !.pc = "done",
                                !.result = CalculateDryEyeTypeResult(clinic.args)]
    /\ UNCHANGED <<p1, p2, graded, image, pc, result, locals, log, tear_results,
                   refine, calls, exc, ui, inv, rng>>

NextDryEye == CalculateDryEyeType

SpecDryEye == InitDryEye /\ [][NextDryEye]_vars

\* C25: the dry_eye_type and the tfos_classification returned by
\* calculate_dry_eye_type agree: ADDE with Pure Aqueous Deficiency, EDE with
\* Pure Evaporative, Mixed Dry Eye with Mixed Mechanism, and Subclinical or
\* No Dry Eye with Subclinical/Pre-clinical.
C25_TypeAgreesWithTfos ==
    (clinic.fn = "calculate_dry_eye_type" /\ clinic.pc = "done") =>
        <<clinic.result.dry_eye_type, clinic.result.tfos_classification>> \in
            {<<"Aqueous Deficient Dry Eye (ADDE)", "Pure Aqueous Deficiency">>,
             <<"Evaporative Dry Eye (EDE)", "Pure Evaporative">>,
             <<"Mixed Dry Eye", "Mixed Mechanism">>,
             <<"Subclinical or No Dry Eye", "Subclinical/Pre-clinical">>}

(***************************************************************************)
(* get_dynamic_recommendations, app.py 363-427.  list(set(...)) leaves the *)
(* specific recommendations in an order the program does not fix, so the   *)
(* slice [:8] can keep any 8 of them; the returned list is held as the set *)
(* of the specific entries it keeps followed by the general entries it     *)
(* keeps, in the order random.sample drew them.                            *)
(***************************************************************************)
\* 'sub' in label, for the grade labels of the analyses
Contains(label, sub) ==
    CASE sub = "Poor" -> label = "Poor"
      [] sub = "Fair" -> label = "Fair"
      [] sub = "Severe" -> label \in {"Severe (Grade IV-V)", "Moderate to Severe"}
      [] sub = "Moderate" -> label \in {"Moderate (Grade III)", "Moderate to Severe"}

\* dict.get(key, default)
Get(dict, key, default) == IF key \in DOMAIN dict THEN dict[key] ELSE default

\* app.py 368-384
TearFilmRecs(tear_film_analysis) ==
    IF ~Truthy(tear_film_analysis) THEN {}
    ELSE LET grade == Get(tear_film_analysis, "grade", "")
             coverage == Get(tear_film_analysis, "coverage", 0)
         IN IF Contains(grade, "Poor") \/ coverage < 30
            THEN {"Intensive lipid-based artificial tears 6-8x daily",
                  "Warm compresses 2x daily for 15 minutes",
                  "Consider topical azithromycin for MGD"}
            ELSE IF Contains(grade, "Fair") \/ coverage < 50
            THEN {"Preservative-free artificial tears 4-6x daily",
                  "Warm compresses 1-2x daily for 10 minutes",
                  "Omega-3 supplementation 2000 mg daily"}
            ELSE {}

\* app.py 387-403
StainingRecs(staining_analysis) ==
    IF ~Truthy(staining_analysis) THEN {}
    ELSE LET staining_grade == Get(staining_analysis, "staining_grade", "")
             staining_pct == Get(staining_analysis, "staining_percentage", Pct(0, 1))
         IN IF Contains(staining_grade, "Severe") \/ PctGT(staining_pct, 15)
            THEN {"Topical corticosteroid (loteprednol) 4x daily for 2 weeks",
                  "Autologous serum tears 6x daily",
                  "Punctal plugs consideration",
                  "Urgent ophthalmology referral"}
            ELSE IF Contains(staining_grade, "Moderate") \/ PctGT(staining_pct, 8)
            THEN {"Topical cyclosporine 0.05% 2x daily",
                  "Steroid pulse therapy if inflammation present",
                  "Lifitegrast consideration for persistent cases"}
            ELSE {}

\* app.py 406-412; tbut2 = 2 * tbut
ClinicalRecs(clinical_params) ==
    (IF Get(clinical_params, "tbut2", 20) < 10
     THEN {"Mucin-enhancing agents (sodium hyaluronate)"} ELSE {})
    \cup
    (IF Get(clinical_params, "schirmer", 15) < 5
     THEN {"Punctal occlusion therapy"} ELSE {})

\* general_recs, app.py 418-423
GeneralRecs ==
    {"Environmental modifications (humidifier, avoid drafts)",
     "Blink exercises during digital device use",
     "Regular follow-up evaluations every 4-6 weeks",
     "Lid hygiene maintenance daily"}

\* random.sample(general_recs, min(3, len(general_recs)))
GeneralSamples ==
    {g \in [1..Min(3, Cardinality(GeneralRecs)) -> GeneralRecs] :
        \A i, j \in DOMAIN g : i # j => g[i] # g[j]}

\* the lists get_dynamic_recommendations can return: recommendations[:8]
DynamicRecommendations(tear_film_analysis, staining_analysis, clinical_params) ==
    LET recommendations == TearFilmRecs(tear_film_analysis)
                           \cup StainingRecs(staining_analysis)
                           \cup ClinicalRecs(clinical_params)
        n == Min(Cardinality(recommendations), 8)
    IN {[specific |-> kept, general |-> SubSeq(g, 1, Min(Len(g), 8 - n))] :
           kept \in {k \in SUBSET recommendations : Cardinality(k) = n},
           g \in GeneralSamples}

TearFilmResults ==
    {PyNone} \cup [kind : {"dict"}, grade : {"Poor", "Fair", "Good", "Excellent"},
                   coverage : {15, 30, 50, 85}]

StainingResults ==
    {PyNone} \cup [kind : {"dict"},
                   staining_grade : {"Severe (Grade IV-V)", "Moderate (Grade III)",
                                     "Mild (Grade II)", "Trace (Grade I)",
                                     "None (Grade 0)", "Moderate to Severe",
                                     "Mild", "Trace to None"},
                   staining_percentage : {Pct(0, 1), Pct(8, 1), Pct(17, 2), Pct(16, 1)}]

ClinicalParams ==
    [tbut2 : {9, 10}, schirmer : {4, 5}] \cup {[key \in {} |-> 0]}

InitRecs ==
    /\ clinic \in {[fn |-> "get_dynamic_recommendations",
                    args |-> [tear_film_analysis |-> t, staining_analysis |-> st,
                              clinical_params |-> c],
                    pc |-> "idle", result |-> NoResult] :
                      t \in TearFilmResults, st \in StainingResults, c \in ClinicalParams}
    /\ image = NoImage
    /\ pc = "idle"
    /\ result = NoResult
    /\ locals = NoLocals
    /\ log = <<>>
    /\ p1 = NoPct
    /\ p2 = NoPct
    /\ graded = NoGrades
    /\ tear_results = <<>>
    /\ refine = NoRefine
    /\ calls = <<>>
    /\ exc = NoExc
    /\ ui = NoUi
    /\ inv = NoInv
    /\ rng = NoRng

GetDynamicRecommendations ==
    /\ clinic.fn = "get_dynamic_recommendations"
    /\ clinic.pc = "idle"
    /\ \E r \in DynamicRecommendations(clinic.args.tear_film_analysis,
                                       clinic.args.staining_analysis,
                                       clinic.args.clinical_params) :
          clinic' = [clinic EXCEPT !.pc = "done", !.result = r]
    /\ UNCHANGED <<p1, p2, graded, image, pc, result, locals, log, tear_results,
                   refine, calls, exc, ui, inv, rng>>

NextRecs == GetDynamicRecommendations

SpecRecs == InitRecs /\ [][NextRecs]_vars

\* C26: the list returned by get_dynamic_recommendations has at most 8
\* entries and contains at least 2 of the general recommendations, whatever
\* the tear-film result, the staining result and the clinical parameters.
C26_RecommendationsBounded ==
    (clinic.fn = "get_dynamic_recommendations" /\ clinic.pc = "done") =>
        /\ Cardinality(clinic.result.specific) + Len(clinic.result.general) <= 8
        /\ Len(clinic.result.general) >= 2

====
